---- MODULE Spec2Model ----
(***************************************************************************)
(* Model of the Pasis Go SDK client: the credential lifecycle              *)
(* (ensureToken / refreshAccessToken / authenticate / setTokens), the      *)
(* request executor (doRequest) with its retry loop, the error classifier  *)
(* (parseErrorResponse), the in-memory token cache and the JSON decoding   *)
(* of the success and error envelopes.                                     *)
(*                                                                         *)
(* Time is counted in minutes.  Local computation between two blocking     *)
(* points of a goroutine is taken to be short against that unit: the clock *)
(* advances only while every caller is idle, waiting for the network or    *)
(* waiting in a backoff.                                                   *)
(***************************************************************************)
EXTENDS Integers, Sequences, FiniteSets, TLC

\* ------------------------------------------------------------------------
\* Bounds of the model
\* ------------------------------------------------------------------------
NumCallers == 2
MaxRetry == 2
MaxClock == 3
MaxIssued == 2

\* ------------------------------------------------------------------------
\* Program constants
\* ------------------------------------------------------------------------
TokenRefreshBuffer == 5
DefaultRetryBackoff == 100
\* time.Time{} : the zero time, far before every clock value of the model
ZeroTime == -1000

Procs == 1..NumCallers

\* ------------------------------------------------------------------------
\* JSON values.  Every value is a record of the same shape, so that values
\* of different JSON types can be compared and put into one set.
\*   t = "bad"  : the bytes are not a JSON document (empty or truncated body)
\* ------------------------------------------------------------------------
EmptyObj == [k \in {} |-> 0]
JBad == [t |-> "bad", s |-> "", n |-> 0, a |-> <<>>, o |-> EmptyObj]
JNull == [t |-> "null", s |-> "", n |-> 0, a |-> <<>>, o |-> EmptyObj]
JStr(s) == [t |-> "str", s |-> s, n |-> 0, a |-> <<>>, o |-> EmptyObj]
JNum(n) == [t |-> "num", s |-> "", n |-> n, a |-> <<>>, o |-> EmptyObj]
JArr(a) == [t |-> "arr", s |-> "", n |-> 0, a |-> a, o |-> EmptyObj]
JObj(o) == [t |-> "obj", s |-> "", n |-> 0, a |-> <<>>, o |-> o]

\* the member k of object v, JNull when v has no such member (encoding/json
\* leaves the destination field untouched for an absent key and for null)
Field(v, k) == IF k \in DOMAIN v.o THEN v.o[k] ELSE JNull

\* a Go string field accepts a JSON string or null
IsStringOrNull(v) == v.t \in {"str", "null"}
StringOf(v) == IF v.t = "str" THEN v.s ELSE ""
\* a Go int field accepts a JSON number or null
IsIntOrNull(v) == v.t \in {"num", "null"}
IntOf(v) == IF v.t = "num" THEN v.n ELSE 0

\* a Go []string field accepts null or an array of strings / nulls
IsStringListOrNull(v) ==
    \/ v.t = "null"
    \/ v.t = "arr" /\ \A i \in 1..Len(v.a) : IsStringOrNull(v.a[i])
StringListOf(v) == IF v.t = "arr" THEN [i \in 1..Len(v.a) |-> StringOf(v.a[i])] ELSE <<>>

\* json.Marshal of a value that json decoded into interface{}: the same
\* document again.  Numbers go through float64, which holds every integer of
\* the model exactly (all are far below 2^53).
RECURSIVE MarshalData(_)
MarshalData(v) ==
    CASE v.t = "arr" -> JArr([i \in 1..Len(v.a) |-> MarshalData(v.a[i])])
      [] v.t = "obj" -> JObj([k \in DOMAIN v.o |-> MarshalData(v.o[k])])
      [] OTHER -> v

\* ------------------------------------------------------------------------
\* Wire types
\* ------------------------------------------------------------------------
\* PaginationMeta; present = FALSE is the nil pointer
NoPagination == [present |-> FALSE, page |-> 0, per_page |-> 0, total |-> 0, total_pages |-> 0]

PaginationOk(v) ==
    \/ v.t = "null"
    \/ /\ v.t = "obj"
       /\ \A k \in {"page", "per_page", "total", "total_pages"} : IsIntOrNull(Field(v, k))

PaginationOf(v) ==
    IF v.t # "obj" THEN NoPagination
    ELSE [present |-> TRUE, page |-> IntOf(Field(v, "page")),
          per_page |-> IntOf(Field(v, "per_page")), total |-> IntOf(Field(v, "total")),
          total_pages |-> IntOf(Field(v, "total_pages"))]

\* json decoding of a body into SuccessResponse{Data interface{}, Message, Pagination}
DecodeSuccessResponse(body) ==
    IF body.t = "null" THEN [ok |-> TRUE, Data |-> JNull, Message |-> "", Pagination |-> NoPagination]
    ELSE IF /\ body.t = "obj"
            /\ IsStringOrNull(Field(body, "message"))
            /\ PaginationOk(Field(body, "pagination"))
    THEN [ok |-> TRUE, Data |-> Field(body, "data"), Message |-> StringOf(Field(body, "message")),
          Pagination |-> PaginationOf(Field(body, "pagination"))]
    ELSE [ok |-> FALSE, Data |-> JNull, Message |-> "", Pagination |-> NoPagination]

\* json decoding of a body into ErrorResponse{Message string, Errors []string}
DecodeErrorResponse(body) ==
    IF body.t = "null" THEN [ok |-> TRUE, Message |-> "", Errors |-> <<>>]
    ELSE IF /\ body.t = "obj"
            /\ IsStringOrNull(Field(body, "message"))
            /\ IsStringListOrNull(Field(body, "errors"))
    THEN [ok |-> TRUE, Message |-> StringOf(Field(body, "message")),
          Errors |-> StringListOf(Field(body, "errors"))]
    ELSE [ok |-> FALSE, Message |-> "", Errors |-> <<>>]

\* json decoding of the re-marshalled data into AppAuthResponse
UnmarshalAppAuthResponse(v) ==
    IF v.t = "null" THEN [ok |-> TRUE, AccessToken |-> "", RefreshToken |-> "", ExpiresIn |-> 0]
    ELSE IF /\ v.t = "obj"
            /\ IsStringOrNull(Field(v, "access_token"))
            /\ IsStringOrNull(Field(v, "refresh_token"))
            /\ IsIntOrNull(Field(v, "expires_in"))
    THEN [ok |-> TRUE, AccessToken |-> StringOf(Field(v, "access_token")),
          RefreshToken |-> StringOf(Field(v, "refresh_token")),
          ExpiresIn |-> IntOf(Field(v, "expires_in"))]
    ELSE [ok |-> FALSE, AccessToken |-> "", RefreshToken |-> "", ExpiresIn |-> 0]

\* ------------------------------------------------------------------------
\* Errors.  An error value is its unwrap chain, outermost layer first; the
\* nil error is the empty chain.
\* ------------------------------------------------------------------------
NilErr == <<>>
Layer(kind, status, msg, errs) == [kind |-> kind, status |-> status, msg |-> msg, errs |-> errs]
\* fmt.Errorf("<msg>: %w", err)
Wrapf(msg, err) == <<Layer("wrapError", 0, msg, <<>>)>> \o err
\* an error of another package at the end of a chain
Leaf(kind) == <<Layer(kind, 0, "", <<>>)>>
\* what http.Client.Do returns: a *url.Error around the cause
DoError(cause) == <<Layer("url.Error", 0, "", <<>>)>> \o Leaf(cause)
APIError(status, msg, errs) == <<Layer("APIError", status, msg, errs)>>
AuthError(msg, err) == <<Layer("AuthError", 0, msg, <<>>)>> \o err
ValidationError(msg, err) == <<Layer("ValidationError", 0, msg, <<>>)>> \o err

\* errors.As(err, &target) for a target of the given type
IsKind(err, kind) == \E i \in 1..Len(err) : err[i].kind = kind
\* the layer errors.As would hand out
AsKind(err, kind) == err[CHOOSE i \in 1..Len(err) : err[i].kind = kind /\ \A j \in 1..(i-1) : err[j].kind # kind]

\* resp.Status as net/http reports it, and the message parseErrorResponse
\* synthesizes from it when the body is no Error Envelope
HTTPStatusLine(status) ==
    CASE status = 100 -> "HTTP 100: 100 Continue"
      [] status = 302 -> "HTTP 302: 302 Found"
      [] status = 400 -> "HTTP 400: 400 Bad Request"
      [] status = 401 -> "HTTP 401: 401 Unauthorized"
      [] status = 403 -> "HTTP 403: 403 Forbidden"
      [] status = 404 -> "HTTP 404: 404 Not Found"
      [] status = 422 -> "HTTP 422: 422 Unprocessable Entity"
      [] status = 500 -> "HTTP 500: 500 Internal Server Error"
      [] status = 502 -> "HTTP 502: 502 Bad Gateway"
      [] status = 503 -> "HTTP 503: 503 Service Unavailable"
      [] OTHER -> "HTTP"

\* the classifier of 422 taken for a plain API error
parseErrorResponseNoValidation(status, body) ==
    LET errResp == DecodeErrorResponse(body)
        apiErr == APIError(status, errResp.Message, errResp.Errors)
    IN  IF ~errResp.ok THEN APIError(status, HTTPStatusLine(status), <<>>)
        ELSE IF status = 401 THEN AuthError(errResp.Message, apiErr)
        ELSE IF status = 400 THEN ValidationError(errResp.Message, apiErr)
        ELSE apiErr

\* the classifier without the reclassification of 401
parseErrorResponseNoAuth(status, body) ==
    LET errResp == DecodeErrorResponse(body)
        apiErr == APIError(status, errResp.Message, errResp.Errors)
    IN  IF ~errResp.ok THEN APIError(status, HTTPStatusLine(status), <<>>)
        ELSE IF status \in {400, 422} THEN ValidationError(errResp.Message, apiErr)
        ELSE apiErr

parseErrorResponse(status, body) ==
    LET errResp == DecodeErrorResponse(body)
        apiErr == APIError(status, errResp.Message, errResp.Errors)
    IN  IF ~errResp.ok THEN APIError(status, HTTPStatusLine(status), <<>>)
        ELSE IF status = 401 THEN AuthError(errResp.Message, apiErr)
        ELSE IF status \in {400, 422} THEN ValidationError(errResp.Message, apiErr)
        ELSE apiErr

\* ------------------------------------------------------------------------
\* The server and the network, as far as the client can observe them
\* ------------------------------------------------------------------------
\* bodies a domain response can carry
ErrBody == JObj([message |-> JStr("invalid amount"),
                 errors |-> JArr(<<JStr("amount must be positive"), JStr("currency is required")>>)])
WalletBody == JObj([data |-> JObj([id |-> JStr("w1"), balance |-> JStr("10.00"), currency |-> JStr("USD")])])
\* a page of two transactions out of three, as GET /wallet/transactions
\* answers it
Tx(id, amount) == JObj([id |-> JStr(id), amount |-> JStr(amount), currency |-> JStr("USD"),
                        type |-> JStr("DEPOSIT"), status |-> JStr("COMPLETED")])
ListBody == JObj([data |-> JArr(<<Tx("t1", "5.00"), Tx("t2", "7.50")>>),
                  pagination |-> JObj([page |-> JNum(1), per_page |-> JNum(2),
                                       total |-> JNum(3), total_pages |-> JNum(2)])])
Bodies == <<JBad, ErrBody, WalletBody, ListBody>>

DomainStatuses == {200, 302, 400, 401, 404, 422, 500, 502, 503}
\* net = FALSE: no response at all (connection failure, timeout)
NoReply == [net |-> FALSE, status |-> 0, b |-> 1]
DomainReplies == {NoReply} \cup [net : {TRUE}, status : DomainStatuses, b : 1..Len(Bodies)]

\* token strings the server hands out, in the order of issue
AccessTokens == <<"at1", "at2", "at3", "at4", "at5">>
RefreshTokens == <<"rt1", "rt2", "rt3", "rt4", "rt5">>
\* lifetimes (expires_in, seconds) a grant can declare
Lifetimes == {-60, 0, 120, 360}

Grant(at, rt, secs) ==
    JObj([data |-> JObj([access_token |-> JStr(at), refresh_token |-> JStr(rt), expires_in |-> JNum(secs)])])

\* replies to an authenticate or refresh exchange when i grants were issued
\* before: failures of every kind, a 2xx without any grant in it, and grants
GrantReplies(i, lifetimes) ==
    IF i >= MaxIssued THEN {}
    ELSE {[net |-> TRUE, status |-> 200, body |-> Grant(AccessTokens[i + 1], rt, secs), grant |-> TRUE] :
             rt \in {"", RefreshTokens[i + 1]}, secs \in lifetimes}
FailedAuthReplies ==
    { [net |-> FALSE, status |-> 0, body |-> JBad, grant |-> FALSE],
      [net |-> TRUE, status |-> 401, body |-> ErrBody, grant |-> FALSE],
      [net |-> TRUE, status |-> 500, body |-> JBad, grant |-> FALSE],
      [net |-> TRUE, status |-> 200, body |-> JBad, grant |-> FALSE],
      [net |-> TRUE, status |-> 200, body |-> JObj([data |-> JObj([expires_in |-> JStr("1h")])]), grant |-> FALSE] }
EmptyAuthReplies ==
    { [net |-> TRUE, status |-> 200, body |-> JObj([data |-> JNull]), grant |-> FALSE] }

\* the endpoint methods of the model
Methods == {"GetWallet", "ListTransactions"}
\* the methods that POST a request body
PostMethods == {"Deposit", "Withdraw"}

\* what the surroundings of the client may do in a run, that is the methods
\* callers call and the replies of the server and the network: the full
\* repertoire of replies for a single caller of GetWallet, every method
\* against a server whose authenticate exchange works, and a smaller
\* repertoire when callers run concurrently
RichServer == [domain |-> DomainReplies, auth |-> FailedAuthReplies \cup EmptyAuthReplies,
               lifetimes |-> Lifetimes, methods |-> {"GetWallet"}, getFails |-> FALSE]
MethodsServer ==
    [domain |-> DomainReplies,
     auth |-> {[net |-> FALSE, status |-> 0, body |-> JBad, grant |-> FALSE]},
     lifetimes |-> {360}, methods |-> Methods, getFails |-> FALSE]
SmallServer ==
    [domain |-> {NoReply, [net |-> TRUE, status |-> 200, b |-> 3]},
     auth |-> {[net |-> FALSE, status |-> 0, body |-> JBad, grant |-> FALSE]},
     lifetimes |-> {0, 120}, methods |-> {"GetWallet"}, getFails |-> FALSE]
\* the server of the POST methods
PostServer ==
    [domain |-> DomainReplies,
     auth |-> {[net |-> FALSE, status |-> 0, body |-> JBad, grant |-> FALSE]},
     lifetimes |-> {360}, methods |-> PostMethods, getFails |-> FALSE]
\* a client on a Token Store shared with other processes, whose Get may fail
StoreServer ==
    [domain |-> {NoReply, [net |-> TRUE, status |-> 200, b |-> 3]},
     auth |-> {[net |-> FALSE, status |-> 0, body |-> JBad, grant |-> FALSE]},
     lifetimes |-> {360}, methods |-> {"GetWallet"}, getFails |-> TRUE]

\* ------------------------------------------------------------------------
\* State
\* ------------------------------------------------------------------------
VARIABLES
    clock,           \* time.Now(), minutes
    retryCount,      \* Client.retryCount
    accessToken,     \* Client.accessToken      (guarded by Client.mu)
    refreshToken,    \* Client.refreshToken     (guarded by Client.mu)
    tokenExpiresAt,  \* Client.tokenExpiresAt   (guarded by Client.mu)
    cache,           \* the TokenCache: token, refreshToken, expiresAt
    issued,          \* number of grants the server has issued
    server,          \* the replies the server and the network may give
    returned,        \* some call on this client has returned already
    call,            \* per caller: position and locals of its running call
    obs              \* per caller: what an observer of the call has seen so far

vars == <<clock, retryCount, accessToken, refreshToken, tokenExpiresAt, cache, issued, server, returned, call, obs>>

AuthReplies == server.auth \cup GrantReplies(issued, server.lifetimes)

Triple(t, r, e) == [token |-> t, refreshToken |-> r, expiresAt |-> e]
EmptyTriple == Triple("", "", ZeroTime)
NoWallet == [nil |-> TRUE, ID |-> "", Balance |-> "", Currency |-> ""]
\* the nil *TransactionsResponse
NoTransactions == [nil |-> TRUE, Data |-> <<>>, Pagination |-> NoPagination]

\* the *DepositRequest or *WithdrawRequest a caller passes: nil, or a
\* request with its string fields
NoRequest == [nil |-> TRUE, Amount |-> "", Currency |-> "", Provider |-> "", Region |-> "", PhoneNumber |-> ""]
DepositRequest(amount, phone) ==
    [nil |-> FALSE, Amount |-> amount, Currency |-> "GHS", Provider |-> "mtn", Region |-> "GH",
     PhoneNumber |-> phone]
SampleRequests == { DepositRequest("10.00", ""), DepositRequest("25.50", "0240000000") }

\* json.Marshal of a DepositRequest or WithdrawRequest: phone_number is
\* omitted when empty
MarshalRequest(req) ==
    IF req.PhoneNumber = ""
    THEN JObj([amount |-> JStr(req.Amount), currency |-> JStr(req.Currency),
               provider |-> JStr(req.Provider), region |-> JStr(req.Region)])
    ELSE JObj([amount |-> JStr(req.Amount), currency |-> JStr(req.Currency),
               provider |-> JStr(req.Provider), region |-> JStr(req.Region),
               phone_number |-> JStr(req.PhoneNumber)])

\* what a caller may pass to a method
Requests(op) == IF op \in PostMethods THEN {NoRequest} \cup SampleRequests ELSE {NoRequest}

\* the method and endpoint arguments each endpoint method gives doRequest,
\* the endpoint after doRequest stripped its leading slash
HTTPMethod(op) == IF op \in PostMethods THEN "POST" ELSE "GET"
Target(op) ==
    CASE op = "Deposit" -> "wallet/deposit"
      [] op = "Withdraw" -> "wallet/withdraw"
      [] op = "ListTransactions" -> "transactions"
      [] OTHER -> "wallet"

\* one reader made before the loop: an attempt after the first finds it
\* read to its end
SharedReader(bodyBytes, attempt) == IF attempt = 0 THEN bodyBytes ELSE JNull
\* bytes.NewReader(bodyBytes), made anew in every attempt; nil bodyBytes
\* (JNull here) give a request without body
NewReader(bodyBytes, attempt) == bodyBytes

IdleCall ==
    [pc |-> "idle", op |-> "", ctxDone |-> FALSE, expiresAt |-> ZeroTime, cached |-> EmptyTriple,
     rtok |-> "", pending |-> EmptyTriple, attempt |-> 0, backoff |-> 0, lastErr |-> NilErr,
     ret |-> NilErr, err |-> NilErr, wallet |-> NoWallet, list |-> NoTransactions,
     body |-> NoRequest, bodyBytes |-> JNull]

NoObs ==
    [dispatches |-> 0, refreshes |-> 0, auths |-> 0,
     cacheFresh |-> FALSE, refreshFailed |-> FALSE,
     authDone |-> FALSE, authErr |-> NilErr, authValid |-> TRUE,
     etDone |-> FALSE, etErr |-> NilErr,
     only5xx |-> TRUE, replied |-> FALSE, last |-> NoReply,
     cancelInBackoff |-> FALSE, dispAtCancel |-> 0,
     ensures |-> 0, sent |-> <<>>, cancelInFlight |-> FALSE, waits |-> <<>>,
     mixed |-> FALSE, reqs |-> <<>>, allRetryable |-> TRUE, after401 |-> <<>>, obtained |-> "", getFailed |-> FALSE, adopted |-> FALSE, priorExpiry |-> ZeroTime]

\* WithRetryCount(count): the value the option stores
WithRetryCount(count) == IF count < 0 THEN 0 ELSE count

\* a Token Store handed in through WithTokenCache may already hold a triple
\* that another process stored
ExternalTriples == { Triple("ext", "extr", 6), Triple("ext", "", 0), Triple("ext", "extr", ZeroTime) }

Init ==
    /\ clock = 0
    /\ \E count \in -1..MaxRetry : retryCount = WithRetryCount(count)
    /\ accessToken = ""
    /\ refreshToken = ""
    /\ tokenExpiresAt = ZeroTime
    /\ cache \in {EmptyTriple} \cup ExternalTriples
    /\ issued = 0
    /\ server = RichServer
    /\ returned = FALSE
    /\ call = [p \in Procs |-> IdleCall]
    /\ obs = [p \in Procs |-> NoObs]

\* ------------------------------------------------------------------------
\* Pure parts of the client code
\* ------------------------------------------------------------------------
\* ensureToken's staleness test
IsStale(expiresAt, now) == expiresAt = ZeroTime \/ now + TokenRefreshBuffer > expiresAt

\* time.Now().Add(time.Duration(ExpiresIn) * time.Second); the lifetimes of
\* the model are whole minutes
ExpiryOf(now, expiresIn) == now + expiresIn \div 60

\* authenticate and refreshAccessToken from the reply on: the error they
\* return, and on success the triple they hand to setTokens
exchangeResult(reply, failMsg, now) ==
    LET none == EmptyTriple
        successResp == DecodeSuccessResponse(reply.body)
        authResp == UnmarshalAppAuthResponse(MarshalData(successResp.Data))
    IN  IF ~reply.net
        THEN [err |-> AuthError(failMsg, DoError(reply.cause)), tokens |-> none]
        ELSE IF reply.status < 200 \/ reply.status >= 400
        THEN [err |-> parseErrorResponse(reply.status, reply.body), tokens |-> none]
        ELSE IF ~successResp.ok
        THEN [err |-> Wrapf("failed to decode response", Leaf("json.Error")), tokens |-> none]
        ELSE IF ~authResp.ok
        THEN [err |-> Wrapf("failed to unmarshal auth response", Leaf("json.Error")), tokens |-> none]
        ELSE [err |-> NilErr,
              tokens |-> Triple(authResp.AccessToken, authResp.RefreshToken,
                                ExpiryOf(now, authResp.ExpiresIn))]

\* the reply http.Client.Do produces for a caller: the context's error once
\* the context is cancelled, else whatever the network gives
WithCause(reply) == [net |-> reply.net, status |-> reply.status, body |-> reply.body,
                     cause |-> "net.OpError"]
CancelledReply == [net |-> FALSE, status |-> 0, body |-> JBad, cause |-> "context.Canceled"]

\* the dynamic type of a value json decoded into interface{}
GoTypeOf(v) ==
    CASE v.t = "null" -> "nil"
      [] v.t = "obj" -> "map[string]interface {}"
      [] v.t = "arr" -> "[]interface {}"
      [] v.t = "str" -> "string"
      [] v.t = "num" -> "float64"
      [] OTHER -> "bool"

\* doRequest on a response that is no error response: decode the envelope,
\* then its data into the sink, here the *SuccessResponse of GetWallet
decodeInto(body, sink) ==
    LET successResp == DecodeSuccessResponse(body)
        into == DecodeSuccessResponse(MarshalData(successResp.Data))
    IN  IF ~successResp.ok
        THEN [err |-> Wrapf("failed to decode response", Leaf("json.Error")), res |-> sink]
        ELSE IF successResp.Data = JNull
        THEN [err |-> NilErr, res |-> sink]
        ELSE IF ~into.ok
        THEN [err |-> Wrapf("failed to unmarshal response data", Leaf("json.Error")), res |-> sink]
        ELSE [err |-> NilErr,
              res |-> [Data |-> IF "data" \in DOMAIN successResp.Data.o /\ into.Data # JNull
                                  THEN into.Data ELSE sink.Data,
                       Message |-> IF Field(successResp.Data, "message").t = "str"
                                     THEN into.Message ELSE sink.Message,
                       Pagination |-> IF Field(successResp.Data, "pagination").t = "obj"
                                        THEN into.Pagination ELSE sink.Pagination]]

ZeroSuccessResponse == [Data |-> JNull, Message |-> "", Pagination |-> NoPagination]

\* GetWallet after doRequest returned ret and left res in its sink
GetWallet(ret, res) ==
    IF ret # NilErr
    THEN [wallet |-> NoWallet, err |-> Wrapf("failed to get wallet", ret)]
    ELSE IF GoTypeOf(res.Data) # "Wallet"
    THEN [wallet |-> NoWallet, err |-> Leaf("errorString: failed to cast data to Wallet")]
    ELSE [wallet |-> [nil |-> FALSE, ID |-> StringOf(Field(res.Data, "id")),
                      Balance |-> StringOf(Field(res.Data, "balance")),
                      Currency |-> StringOf(Field(res.Data, "currency"))],
          err |-> NilErr]

\* json decoding of a value into WalletTransaction, as far as its string
\* fields id, amount, currency, type and status go
TransactionOk(v) ==
    \/ v.t = "null"
    \/ /\ v.t = "obj"
       /\ \A k \in {"id", "amount", "currency", "type", "status"} : IsStringOrNull(Field(v, k))
TransactionOf(v) ==
    [ID |-> StringOf(Field(v, "id")), Amount |-> StringOf(Field(v, "amount")),
     Currency |-> StringOf(Field(v, "currency")), Type |-> StringOf(Field(v, "type")),
     Status |-> StringOf(Field(v, "status"))]
\* a Go []WalletTransaction field accepts null or an array of objects / nulls
TransactionListOk(v) ==
    \/ v.t = "null"
    \/ v.t = "arr" /\ \A i \in 1..Len(v.a) : TransactionOk(v.a[i])

\* json decoding of the re-marshalled data into TransactionsResponse, a
\* struct: only a JSON object (or null) can be decoded into it
UnmarshalTransactionsResponse(v, sink) ==
    IF v.t = "null" THEN [ok |-> TRUE, res |-> sink]
    ELSE IF /\ v.t = "obj"
            /\ TransactionListOk(Field(v, "data"))
            /\ PaginationOk(Field(v, "pagination"))
    THEN [ok |-> TRUE,
          res |-> [Data |-> IF Field(v, "data").t = "arr"
                            THEN [i \in 1..Len(Field(v, "data").a) |-> TransactionOf(Field(v, "data").a[i])]
                            ELSE sink.Data,
                   Pagination |-> IF Field(v, "pagination").t = "obj"
                                  THEN PaginationOf(Field(v, "pagination")) ELSE sink.Pagination]]
    ELSE [ok |-> FALSE, res |-> sink]

\* doRequest on a response that is no error response, with the
\* *TransactionsResponse of ListTransactions as sink
decodeIntoTransactions(body, sink) ==
    LET successResp == DecodeSuccessResponse(body)
        into == UnmarshalTransactionsResponse(MarshalData(successResp.Data), sink)
    IN  IF ~successResp.ok
        THEN [err |-> Wrapf("failed to decode response", Leaf("json.Error")), res |-> sink]
        ELSE IF successResp.Data = JNull
        THEN [err |-> NilErr, res |-> sink]
        ELSE IF ~into.ok
        THEN [err |-> Wrapf("failed to unmarshal response data", Leaf("json.Error")), res |-> sink]
        ELSE [err |-> NilErr, res |-> into.res]

ZeroTransactionsResponse == [Data |-> <<>>, Pagination |-> NoPagination]

\* ListTransactions after doRequest returned ret and left resp in its sink
ListTransactions(ret, resp) ==
    IF ret # NilErr
    THEN [list |-> NoTransactions, err |-> Wrapf("failed to list transactions", ret)]
    ELSE [list |-> [nil |-> FALSE, Data |-> resp.Data, Pagination |-> resp.Pagination],
          err |-> NilErr]

\* Deposit and Withdraw after doRequest returned ret and left res in its
\* sink: the error they return; the *WalletTransaction is nil with every
\* error
DepositOrWithdraw(op, ret, res) ==
    IF ret # NilErr
    THEN Wrapf(IF op = "Deposit" THEN "failed to deposit" ELSE "failed to withdraw", ret)
    ELSE IF GoTypeOf(res.Data) # "WalletTransaction"
    THEN Leaf("errorString: failed to cast data to WalletTransaction")
    ELSE NilErr

\* the endpoint method op after doRequest returned ret and left res in the
\* sink the method passed
Endpoint(op, ret, res) ==
    IF op = "ListTransactions"
    THEN [wallet |-> NoWallet, list |-> ListTransactions(ret, res).list,
          err |-> ListTransactions(ret, res).err]
    ELSE IF op \in PostMethods
    THEN [wallet |-> NoWallet, list |-> NoTransactions, err |-> DepositOrWithdraw(op, ret, res)]
    ELSE [wallet |-> GetWallet(ret, res).wallet, list |-> NoTransactions,
          err |-> GetWallet(ret, res).err]

\* the retry loop's tests
\* client errors taken for retryable
IsServerErrorFrom400(statusCode) == statusCode >= 400
IsServerError(statusCode) == statusCode >= 500
IsErrorStatus(statusCode) == statusCode < 200 \/ statusCode >= 400
\* a loop that always grants one retry
MaxRetriesAtLeastOne == IF retryCount > 1 THEN retryCount ELSE 1
MaxRetries == IF retryCount > 0 THEN retryCount ELSE 0
\* the loop giving up one attempt early
HasAttemptsLeftOffByOne(attempt) == attempt + 1 < MaxRetries
HasAttemptsLeft(attempt) == attempt < MaxRetries

\* ------------------------------------------------------------------------
\* Steps of one caller.  A step is the code between two accesses to shared
\* state (Client.mu, the TokenCache, the network).
\* ------------------------------------------------------------------------
Goto(p, c, o) ==
    /\ call' = [call EXCEPT ![p] = c]
    /\ obs' = [obs EXCEPT ![p] = o]

\* doRequest returns ret to the endpoint method, which returns to its caller
Finish(p, ret, res, o) ==
    LET out == Endpoint(call[p].op, ret, res)
    IN  Goto(p, [IdleCall EXCEPT !.pc = "done", !.op = call[p].op, !.ctxDone = call[p].ctxDone,
                                 !.ret = ret, !.err = out.err, !.wallet = out.wallet,
                                 !.list = out.list], o)

\* ensureToken returned nil: doRequest enters its retry loop
EnterLoop(p, o) ==
    Goto(p, [IdleCall EXCEPT !.pc = "dr_send", !.op = call[p].op, !.ctxDone = call[p].ctxDone,
                             !.attempt = 0, !.backoff = DefaultRetryBackoff,
                             !.bodyBytes = IF call[p].body.nil THEN JNull
                                           ELSE MarshalRequest(call[p].body)],
         [o EXCEPT !.etDone = TRUE, !.etErr = NilErr])

\* doRequest going on to its retry loop after a failed ensureToken
FailEnsureContinue(p, err, o) ==
    Goto(p, [IdleCall EXCEPT !.pc = "dr_send", !.op = call[p].op, !.ctxDone = call[p].ctxDone,
                             !.attempt = 0, !.backoff = DefaultRetryBackoff,
                             !.bodyBytes = IF call[p].body.nil THEN JNull
                                           ELSE MarshalRequest(call[p].body)],
         [o EXCEPT !.etDone = TRUE, !.etErr = err])

\* ensureToken returned err: doRequest returns it wrapped
FailEnsure(p, err, o) ==
    Finish(p, Wrapf("failed to ensure token", err), ZeroSuccessResponse,
           [o EXCEPT !.etDone = TRUE, !.etErr = err])

\* a caller calls an endpoint method with a fresh context
StartCall(p) ==
    /\ call[p].pc = "idle"
    /\ \E m \in server.methods : \E req \in Requests(m) :
          IF m \in PostMethods /\ req.nil
          THEN Goto(p, [IdleCall EXCEPT !.pc = "done", !.op = m,
                                        !.err = Leaf(IF m = "Deposit"
                                                     THEN "errorString: deposit request cannot be nil"
                                                     ELSE "errorString: withdraw request cannot be nil")],
                    [NoObs EXCEPT !.after401 = obs[p].after401])
          ELSE Goto(p, [IdleCall EXCEPT !.pc = "et_read", !.op = m, !.body = req],
                    [NoObs EXCEPT !.after401 = obs[p].after401])
    /\ UNCHANGED <<clock, retryCount, accessToken, refreshToken, tokenExpiresAt, cache, issued, server, returned>>

\* ensureToken: expiresAt := c.tokenExpiresAt under RLock
EnsureTokenRead(p) ==
    /\ call[p].pc = "et_read"
    /\ Goto(p, [call[p] EXCEPT !.pc = "et_get", !.expiresAt = tokenExpiresAt],
            [obs[p] EXCEPT !.ensures = @ + 1])
    /\ UNCHANGED <<clock, retryCount, accessToken, refreshToken, tokenExpiresAt, cache, issued, server, returned>>

\* the results c.tokenCache.Get() can have: the InMemoryTokenCache never
\* fails, a custom Token Store may
GetFailures == IF server.getFails THEN BOOLEAN ELSE {FALSE}

\* the test of Get's result without `err == nil`
EnsureTokenGetIgnoreErr(p) ==
    /\ call[p].pc = "et_get"
    /\ \E failed \in GetFailures :
         LET o == [obs[p] EXCEPT !.cacheFresh = (~failed /\ cache.token # "" /\ cache.expiresAt > clock + TokenRefreshBuffer),
                                 !.getFailed = failed, !.priorExpiry = tokenExpiresAt]
         IN  IF cache.token # ""
             THEN Goto(p, [call[p] EXCEPT !.pc = "et_adopt", !.cached = cache], o)
             ELSE Goto(p, [call[p] EXCEPT !.pc = "et_check"], o)
    /\ UNCHANGED <<clock, retryCount, accessToken, refreshToken, tokenExpiresAt, cache, issued, server, returned>>

\* ensureToken: c.tokenCache.Get() and the test `err == nil && token != ""`
EnsureTokenGet(p) ==
    /\ call[p].pc = "et_get"
    /\ \E failed \in GetFailures :
         LET o == [obs[p] EXCEPT !.cacheFresh = (~failed /\ cache.token # "" /\ cache.expiresAt > clock + TokenRefreshBuffer),
                                 !.getFailed = failed, !.priorExpiry = tokenExpiresAt]
         IN  IF ~failed /\ cache.token # ""
             THEN Goto(p, [call[p] EXCEPT !.pc = "et_adopt", !.cached = cache], o)
             ELSE Goto(p, [call[p] EXCEPT !.pc = "et_check"], o)
    /\ UNCHANGED <<clock, retryCount, accessToken, refreshToken, tokenExpiresAt, cache, issued, server, returned>>

\* the adoption without `expiresAt = cachedExpiresAt`: staleness is then
\* judged by the expiry read before the cache was consulted
EnsureTokenAdoptKeepExpiry(p) ==
    /\ call[p].pc = "et_adopt"
    /\ accessToken' = call[p].cached.token
    /\ refreshToken' = call[p].cached.refreshToken
    /\ tokenExpiresAt' = call[p].cached.expiresAt
    /\ Goto(p, [call[p] EXCEPT !.pc = "et_check", !.cached = EmptyTriple],
            [obs[p] EXCEPT !.adopted = TRUE, !.obtained = call[p].cached.token])
    /\ UNCHANGED <<clock, retryCount, cache, issued, server, returned>>

\* ensureToken: the cached triple becomes the in-process credential
EnsureTokenAdopt(p) ==
    /\ call[p].pc = "et_adopt"
    /\ accessToken' = call[p].cached.token
    /\ refreshToken' = call[p].cached.refreshToken
    /\ tokenExpiresAt' = call[p].cached.expiresAt
    /\ Goto(p, [call[p] EXCEPT !.pc = "et_check", !.expiresAt = call[p].cached.expiresAt,
                               !.cached = EmptyTriple],
            [obs[p] EXCEPT !.adopted = TRUE, !.obtained = call[p].cached.token])
    /\ UNCHANGED <<clock, retryCount, cache, issued, server, returned>>

\* ensureToken: the staleness test and, when stale, the read of
\* c.refreshToken that chooses between refresh and authenticate
EnsureTokenCheck(p) ==
    /\ call[p].pc = "et_check"
    /\ LET o == [obs[p] EXCEPT !.getFailed = FALSE, !.adopted = FALSE, !.priorExpiry = ZeroTime]
       IN  IF IsStale(call[p].expiresAt, clock)
           THEN IF refreshToken # ""
                THEN Goto(p, [call[p] EXCEPT !.pc = "rf_read", !.expiresAt = ZeroTime],
                          [o EXCEPT !.after401 = <<>>])
                ELSE Goto(p, [call[p] EXCEPT !.pc = "au_send", !.expiresAt = ZeroTime],
                          [o EXCEPT !.after401 = <<>>])
           ELSE EnterLoop(p, o)
    /\ UNCHANGED <<clock, retryCount, accessToken, refreshToken, tokenExpiresAt, cache, issued, server, returned>>

\* refreshAccessToken without its test for an empty refresh token
RefreshReadNoCheck(p) ==
    /\ call[p].pc = "rf_read"
    /\ Goto(p, [call[p] EXCEPT !.pc = "rf_send", !.rtok = refreshToken], obs[p])
    /\ UNCHANGED <<clock, retryCount, accessToken, refreshToken, tokenExpiresAt, cache, issued, server, returned>>

\* refreshAccessToken: its own read of c.refreshToken; without a refresh
\* token it fails at once and ensureToken falls back to authenticate
RefreshRead(p) ==
    /\ call[p].pc = "rf_read"
    /\ IF refreshToken = ""
       THEN Goto(p, [call[p] EXCEPT !.pc = "au_send"], [obs[p] EXCEPT !.refreshFailed = TRUE])
       ELSE Goto(p, [call[p] EXCEPT !.pc = "rf_send", !.rtok = refreshToken], obs[p])
    /\ UNCHANGED <<clock, retryCount, accessToken, refreshToken, tokenExpiresAt, cache, issued, server, returned>>

\* refreshAccessToken: c.httpClient.Do sends the refresh exchange, unless
\* the context is done already
RefreshSend(p) ==
    /\ call[p].pc = "rf_send"
    /\ IF call[p].ctxDone
       THEN Goto(p, [call[p] EXCEPT !.pc = "au_send", !.rtok = ""],
                 [obs[p] EXCEPT !.refreshFailed = TRUE])
       ELSE Goto(p, [call[p] EXCEPT !.pc = "rf_wait"],
                 [obs[p] EXCEPT !.refreshes = @ + 1])
    /\ UNCHANGED <<clock, retryCount, accessToken, refreshToken, tokenExpiresAt, cache, issued, server, returned>>

\* ensureToken returning the refresh failure instead of falling back
RefreshRecvNoFallback(p) ==
    /\ call[p].pc = "rf_wait"
    /\ \E reply \in IF call[p].ctxDone THEN {CancelledReply}
                    ELSE {WithCause(r) : r \in AuthReplies} :
         LET r == exchangeResult(reply, "failed to refresh token", clock)
         IN  IF r.err = NilErr
             THEN /\ accessToken' = r.tokens.token
                  /\ refreshToken' = r.tokens.refreshToken
                  /\ tokenExpiresAt' = r.tokens.expiresAt
                  /\ issued' = IF r.tokens.token # "" THEN issued + 1 ELSE issued
                  /\ Goto(p, [call[p] EXCEPT !.pc = "rf_set", !.rtok = "", !.pending = r.tokens],
                          [obs[p] EXCEPT !.obtained = r.tokens.token])
             ELSE /\ FailEnsure(p, r.err, [obs[p] EXCEPT !.refreshFailed = TRUE])
                  /\ UNCHANGED <<accessToken, refreshToken, tokenExpiresAt, issued>>
    /\ UNCHANGED <<clock, retryCount, cache, server, returned>>

\* refreshAccessToken: the exchange ends; on success setTokens writes the
\* in-process credential under the lock, on failure ensureToken falls back
RefreshRecv(p) ==
    /\ call[p].pc = "rf_wait"
    /\ \E reply \in IF call[p].ctxDone THEN {CancelledReply}
                    ELSE {WithCause(r) : r \in AuthReplies} :
         LET r == exchangeResult(reply, "failed to refresh token", clock)
         IN  IF r.err = NilErr
             THEN /\ accessToken' = r.tokens.token
                  /\ refreshToken' = r.tokens.refreshToken
                  /\ tokenExpiresAt' = r.tokens.expiresAt
                  /\ issued' = IF r.tokens.token # "" THEN issued + 1 ELSE issued
                  /\ Goto(p, [call[p] EXCEPT !.pc = "rf_set", !.rtok = "", !.pending = r.tokens],
                          [obs[p] EXCEPT !.obtained = r.tokens.token])
             ELSE /\ Goto(p, [call[p] EXCEPT !.pc = "au_send", !.rtok = ""],
                          [obs[p] EXCEPT !.refreshFailed = TRUE])
                  /\ UNCHANGED <<accessToken, refreshToken, tokenExpiresAt, issued>>
    /\ UNCHANGED <<clock, retryCount, cache, server, returned>>

\* ensureToken going on to authenticate after a refresh that succeeded
RefreshSetThenAuthenticate(p) ==
    /\ call[p].pc = "rf_set"
    /\ cache' = call[p].pending
    /\ Goto(p, [call[p] EXCEPT !.pc = "au_send", !.pending = EmptyTriple], obs[p])
    /\ UNCHANGED <<clock, retryCount, accessToken, refreshToken, tokenExpiresAt, issued, server, returned>>

\* setTokens, second half: c.tokenCache.Set, after the lock was released;
\* refreshAccessToken and ensureToken return nil
RefreshSet(p) ==
    /\ call[p].pc = "rf_set"
    /\ cache' = call[p].pending
    /\ EnterLoop(p, obs[p])
    /\ UNCHANGED <<clock, retryCount, accessToken, refreshToken, tokenExpiresAt, issued, server, returned>>

\* authenticate: c.httpClient.Do sends the authenticate exchange, unless the
\* context is done already
AuthenticateSend(p) ==
    /\ call[p].pc = "au_send"
    /\ IF call[p].ctxDone
       THEN LET e == exchangeResult(CancelledReply, "failed to authenticate", clock).err
            IN  FailEnsure(p, e, [obs[p] EXCEPT !.authDone = TRUE, !.authErr = e, !.authValid = FALSE])
       ELSE Goto(p, [call[p] EXCEPT !.pc = "au_wait"], [obs[p] EXCEPT !.auths = @ + 1])
    /\ UNCHANGED <<clock, retryCount, accessToken, refreshToken, tokenExpiresAt, cache, issued, server, returned>>

\* an authenticate that forgets the credential when its exchange fails
AuthenticateRecvClearOnFailure(p) ==
    /\ call[p].pc = "au_wait"
    /\ \E reply \in IF call[p].ctxDone THEN {CancelledReply}
                    ELSE {WithCause(r) : r \in AuthReplies} :
         LET r == exchangeResult(reply, "failed to authenticate", clock)
             o == [obs[p] EXCEPT !.authDone = TRUE, !.authErr = r.err,
                                 !.authValid = (r.err = NilErr /\ r.tokens.token # ""
                                                /\ r.tokens.expiresAt > clock)]
         IN  /\ accessToken' = r.tokens.token
             /\ refreshToken' = r.tokens.refreshToken
             /\ tokenExpiresAt' = r.tokens.expiresAt
             /\ IF r.err = NilErr
                THEN /\ issued' = IF r.tokens.token # "" THEN issued + 1 ELSE issued
                     /\ Goto(p, [call[p] EXCEPT !.pc = "au_set", !.pending = r.tokens],
                             [o EXCEPT !.obtained = r.tokens.token])
                ELSE /\ FailEnsure(p, r.err, o)
                     /\ UNCHANGED issued
    /\ UNCHANGED <<clock, retryCount, cache, server, returned>>

\* authenticate: the exchange ends; on success setTokens writes the
\* in-process credential under the lock, on failure ensureToken and
\* doRequest return the error
AuthenticateRecv(p) ==
    /\ call[p].pc = "au_wait"
    /\ \E reply \in IF call[p].ctxDone THEN {CancelledReply}
                    ELSE {WithCause(r) : r \in AuthReplies} :
         LET r == exchangeResult(reply, "failed to authenticate", clock)
             o == [obs[p] EXCEPT !.authDone = TRUE, !.authErr = r.err,
                                 !.authValid = (r.err = NilErr /\ r.tokens.token # ""
                                                /\ r.tokens.expiresAt > clock)]
         IN  IF r.err = NilErr
             THEN /\ accessToken' = r.tokens.token
                  /\ refreshToken' = r.tokens.refreshToken
                  /\ tokenExpiresAt' = r.tokens.expiresAt
                  /\ issued' = IF r.tokens.token # "" THEN issued + 1 ELSE issued
                  /\ Goto(p, [call[p] EXCEPT !.pc = "au_set", !.pending = r.tokens],
                          [o EXCEPT !.obtained = r.tokens.token])
             ELSE /\ FailEnsure(p, r.err, o)
                  /\ UNCHANGED <<accessToken, refreshToken, tokenExpiresAt, issued>>
    /\ UNCHANGED <<clock, retryCount, cache, server, returned>>

\* setTokens, second half: c.tokenCache.Set, after the lock was released;
\* authenticate and ensureToken return nil
AuthenticateSet(p) ==
    /\ call[p].pc = "au_set"
    /\ cache' = call[p].pending
    /\ EnterLoop(p, obs[p])
    /\ UNCHANGED <<clock, retryCount, accessToken, refreshToken, tokenExpiresAt, issued, server, returned>>

\* the loop keeping the first retryable failure as the one to return
RetryOrGiveUpFirstErr(p, err, o) ==
    LET first == IF call[p].lastErr = NilErr THEN err ELSE call[p].lastErr
    IN  IF HasAttemptsLeft(call[p].attempt)
        THEN Goto(p, [call[p] EXCEPT !.pc = "dr_backoff", !.attempt = @ + 1, !.lastErr = first], o)
        ELSE Finish(p, first, ZeroSuccessResponse, o)

\* doRequest, after a retryable failure err of the current attempt:
\* lastErr = err, then `continue` while attempts are left, else return it
RetryOrGiveUp(p, err, o) ==
    IF HasAttemptsLeft(call[p].attempt)
    THEN Goto(p, [call[p] EXCEPT !.pc = "dr_backoff", !.attempt = @ + 1, !.lastErr = err], o)
    ELSE Finish(p, err, ZeroSuccessResponse, o)

\* a plain time.Sleep(backoff) in place of the select
BackoffSleep(p) ==
    /\ call[p].pc = "dr_backoff"
    /\ Goto(p, [call[p] EXCEPT !.pc = "dr_send", !.backoff = @ * 2],
            [obs[p] EXCEPT !.waits = Append(@, call[p].backoff)])
    /\ UNCHANGED <<clock, retryCount, accessToken, refreshToken, tokenExpiresAt, cache, issued, server, returned>>

\* the select without `backoff *= 2`
BackoffConstant(p) ==
    /\ call[p].pc = "dr_backoff"
    /\ IF call[p].ctxDone
       THEN Finish(p, Leaf("context.Canceled"), ZeroSuccessResponse, obs[p])
       ELSE Goto(p, [call[p] EXCEPT !.pc = "dr_send"],
                 [obs[p] EXCEPT !.waits = Append(@, call[p].backoff)])
    /\ UNCHANGED <<clock, retryCount, accessToken, refreshToken, tokenExpiresAt, cache, issued, server, returned>>

\* a wait that only cancellation ends
BackoffOnlyCancel(p) ==
    /\ call[p].pc = "dr_backoff"
    /\ call[p].ctxDone
    /\ Finish(p, Leaf("context.Canceled"), ZeroSuccessResponse, obs[p])
    /\ UNCHANGED <<clock, retryCount, accessToken, refreshToken, tokenExpiresAt, cache, issued, server, returned>>

\* doRequest: the select between ctx.Done() and time.After(backoff) that
\* precedes every attempt but the first; whichever comes first decides
Backoff(p) ==
    /\ call[p].pc = "dr_backoff"
    /\ IF call[p].ctxDone
       THEN Finish(p, Leaf("context.Canceled"), ZeroSuccessResponse, obs[p])
       ELSE Goto(p, [call[p] EXCEPT !.pc = "dr_send", !.backoff = @ * 2],
                 [obs[p] EXCEPT !.waits = Append(@, call[p].backoff)])
    /\ UNCHANGED <<clock, retryCount, accessToken, refreshToken, tokenExpiresAt, cache, issued, server, returned>>

\* every attempt carrying the access token the first attempt read
DoRequestSendSnapshot(p) ==
    /\ call[p].pc = "dr_send"
    /\ IF call[p].ctxDone
       THEN RetryOrGiveUp(p, Wrapf("request failed", DoError("context.Canceled")), obs[p])
       ELSE Goto(p, [call[p] EXCEPT !.pc = "dr_wait"],
                 [obs[p] EXCEPT !.dispatches = @ + 1,
                                !.sent = Append(@, IF @ = <<>> THEN accessToken ELSE @[1]),
                                !.reqs = Append(@, [method |-> HTTPMethod(call[p].op),
                                                    target |-> Target(call[p].op),
                                                    body |-> NewReader(call[p].bodyBytes, call[p].attempt)])])
    /\ UNCHANGED <<clock, retryCount, accessToken, refreshToken, tokenExpiresAt, cache, issued, server, returned>>

\* doRequest: build the request with the access token read under RLock and
\* hand it to c.httpClient.Do, which sends nothing once the context is done
DoRequestSend(p) ==
    /\ call[p].pc = "dr_send"
    /\ IF call[p].ctxDone
       THEN RetryOrGiveUp(p, Wrapf("request failed", DoError("context.Canceled")), obs[p])
       ELSE Goto(p, [call[p] EXCEPT !.pc = "dr_wait"],
                 [obs[p] EXCEPT !.dispatches = @ + 1, !.sent = Append(@, accessToken),
                                !.reqs = Append(@, [method |-> HTTPMethod(call[p].op),
                                                    target |-> Target(call[p].op),
                                                    body |-> NewReader(call[p].bodyBytes, call[p].attempt)])])
    /\ UNCHANGED <<clock, retryCount, accessToken, refreshToken, tokenExpiresAt, cache, issued, server, returned>>

\* doRequest: c.httpClient.Do returns; the rest of the loop body
\* a loop that sends decode failures through the retry test
DoRequestRecvRetryDecode(p) ==
    /\ call[p].pc = "dr_wait"
    /\ IF call[p].ctxDone
       THEN RetryOrGiveUp(p, Wrapf("request failed", DoError("context.Canceled")), obs[p])
       ELSE \E reply \in server.domain :
              LET o == [obs[p] EXCEPT !.replied = TRUE, !.last = reply,
                                      !.only5xx = @ /\ reply.net /\ reply.status \in {500, 502, 503},
                                      !.mixed = @ \/ (obs[p].replied /\ reply # obs[p].last),
                                      !.allRetryable = @ /\ (~reply.net \/ IsServerError(reply.status)),
                                      !.after401 = <<>>]
                  body == Bodies[reply.b]
                  d == IF call[p].op = "ListTransactions"
                       THEN decodeIntoTransactions(body, ZeroTransactionsResponse)
                       ELSE decodeInto(body, ZeroSuccessResponse)
              IN  IF ~reply.net
                  THEN RetryOrGiveUp(p, Wrapf("request failed", DoError("net.OpError")), o)
                  ELSE IF IsServerError(reply.status)
                  THEN RetryOrGiveUp(p, parseErrorResponse(reply.status, body), o)
                  ELSE IF IsErrorStatus(reply.status)
                  THEN Finish(p, parseErrorResponse(reply.status, body), ZeroSuccessResponse, o)
                  ELSE IF d.err # NilErr
                  THEN RetryOrGiveUp(p, d.err, o)
                  ELSE Finish(p, d.err, d.res, o)
    /\ UNCHANGED <<clock, retryCount, accessToken, refreshToken, tokenExpiresAt, cache, issued, server, returned>>

\* a doRequest that drops the credential when the server answers 401
DoRequestRecvInvalidateOn401(p) ==
    /\ call[p].pc = "dr_wait"
    /\ IF call[p].ctxDone
       THEN /\ RetryOrGiveUp(p, Wrapf("request failed", DoError("context.Canceled")), obs[p])
            /\ UNCHANGED <<accessToken, refreshToken, tokenExpiresAt, cache>>
       ELSE \E reply \in server.domain :
              LET o == [obs[p] EXCEPT !.replied = TRUE, !.last = reply,
                                      !.only5xx = @ /\ reply.net /\ reply.status \in {500, 502, 503},
                                      !.mixed = @ \/ (obs[p].replied /\ reply # obs[p].last),
                                      !.allRetryable = @ /\ (~reply.net \/ IsServerError(reply.status)),
                                      !.after401 = <<>>]
                  body == Bodies[reply.b]
                  d == IF call[p].op = "ListTransactions"
                       THEN decodeIntoTransactions(body, ZeroTransactionsResponse)
                       ELSE decodeInto(body, ZeroSuccessResponse)
              IN  /\ IF reply.net /\ reply.status = 401
                     THEN /\ accessToken' = "" /\ refreshToken' = ""
                          /\ tokenExpiresAt' = ZeroTime /\ cache' = EmptyTriple
                     ELSE UNCHANGED <<accessToken, refreshToken, tokenExpiresAt, cache>>
                  /\ IF ~reply.net
                     THEN RetryOrGiveUp(p, Wrapf("request failed", DoError("net.OpError")), o)
                     ELSE IF IsServerError(reply.status)
                     THEN RetryOrGiveUp(p, parseErrorResponse(reply.status, body), o)
                     ELSE IF IsErrorStatus(reply.status)
                     THEN Finish(p, parseErrorResponse(reply.status, body), ZeroSuccessResponse, o)
                     ELSE Finish(p, d.err, d.res, o)
    /\ UNCHANGED <<clock, retryCount, issued, server, returned>>

DoRequestRecv(p) ==
    /\ call[p].pc = "dr_wait"
    /\ IF call[p].ctxDone
       THEN RetryOrGiveUp(p, Wrapf("request failed", DoError("context.Canceled")), obs[p])
       ELSE \E reply \in server.domain :
              LET o == [obs[p] EXCEPT !.replied = TRUE, !.last = reply,
                                      !.only5xx = @ /\ reply.net /\ reply.status \in {500, 502, 503},
                                      !.mixed = @ \/ (obs[p].replied /\ reply # obs[p].last),
                                      !.allRetryable = @ /\ (~reply.net \/ IsServerError(reply.status)),
                                      !.after401 = <<>>]
                  body == Bodies[reply.b]
                  d == IF call[p].op = "ListTransactions"
                       THEN decodeIntoTransactions(body, ZeroTransactionsResponse)
                       ELSE decodeInto(body, ZeroSuccessResponse)
              IN  IF ~reply.net
                  THEN RetryOrGiveUp(p, Wrapf("request failed", DoError("net.OpError")), o)
                  ELSE IF IsServerError(reply.status)
                  THEN RetryOrGiveUp(p, parseErrorResponse(reply.status, body), o)
                  ELSE IF IsErrorStatus(reply.status)
                  THEN Finish(p, parseErrorResponse(reply.status, body), ZeroSuccessResponse, o)
                  ELSE Finish(p, d.err, d.res, o)
    /\ UNCHANGED <<clock, retryCount, accessToken, refreshToken, tokenExpiresAt, cache, issued, server, returned>>

\* GetWallet has returned; the caller is free to call again
Return(p) ==
    /\ call[p].pc = "done"
    /\ Goto(p, IdleCall,
            [NoObs EXCEPT !.after401 =
                IF obs[p].replied /\ obs[p].last.net /\ obs[p].last.status = 401
                THEN <<obs[p].sent[Len(obs[p].sent)]>> ELSE <<>>])
    /\ returned' = TRUE
    /\ UNCHANGED <<clock, retryCount, accessToken, refreshToken, tokenExpiresAt, cache, issued, server>>

\* the caller cancels the context of its running call
Cancel(p) ==
    /\ call[p].pc \notin {"idle", "done"}
    /\ ~call[p].ctxDone
    /\ Goto(p, [call[p] EXCEPT !.ctxDone = TRUE],
            [obs[p] EXCEPT !.cancelInBackoff = (call[p].pc = "dr_backoff"),
                           !.cancelInFlight = (call[p].pc = "dr_wait"),
                           !.dispAtCancel = obs[p].dispatches])
    /\ UNCHANGED <<clock, retryCount, accessToken, refreshToken, tokenExpiresAt, cache, issued, server, returned>>

\* a minute passes while every caller is idle or blocked
Blocked == {"idle", "done", "rf_wait", "au_wait", "dr_wait", "dr_backoff"}
Tick ==
    /\ clock < MaxClock
    /\ \A p \in Procs : call[p].pc \in Blocked
    /\ clock' = clock + 1
    /\ UNCHANGED <<retryCount, accessToken, refreshToken, tokenExpiresAt, cache, issued, server, returned, call, obs>>

Step(p) ==
    \/ StartCall(p)
    \/ EnsureTokenRead(p)
    \/ EnsureTokenGet(p)
    \/ EnsureTokenAdopt(p)
    \/ EnsureTokenCheck(p)
    \/ RefreshRead(p)
    \/ RefreshSend(p)
    \/ RefreshRecv(p)
    \/ RefreshSet(p)
    \/ AuthenticateSend(p)
    \/ AuthenticateRecv(p)
    \/ AuthenticateSet(p)
    \/ Backoff(p)
    \/ DoRequestSend(p)
    \/ DoRequestRecv(p)
    \/ Return(p)

\* one caller, who may cancel its calls, against the full repertoire
Next ==
    \/ Tick
    \/ Step(1)
    \/ Cancel(1)

Spec == Init /\ [][Next]_vars

\* one caller of any endpoint method on a client with the default (empty)
\* in-memory cache
InitMethods ==
    /\ clock = 0
    /\ \E count \in -1..1 : retryCount = WithRetryCount(count)
    /\ accessToken = ""
    /\ refreshToken = ""
    /\ tokenExpiresAt = ZeroTime
    /\ cache = EmptyTriple
    /\ issued = 0
    /\ server = MethodsServer
    /\ returned = FALSE
    /\ call = [p \in Procs |-> IdleCall]
    /\ obs = [p \in Procs |-> NoObs]

SpecMethods == InitMethods /\ [][Next]_vars
\* every exchange returns and every backoff wait ends: the caller's next
\* step is taken when it stays possible.  Cancellation is never forced.
SpecMethodsLive == InitMethods /\ [][Next]_vars /\ WF_vars(Step(1))

\* concurrent callers on one client with the default (empty) in-memory cache
InitConc ==
    /\ clock = 0
    /\ retryCount \in {0, 1}
    /\ accessToken = ""
    /\ refreshToken = ""
    /\ tokenExpiresAt = ZeroTime
    /\ cache = EmptyTriple
    /\ issued = 0
    /\ server = SmallServer
    /\ returned = FALSE
    /\ call = [p \in Procs |-> IdleCall]
    /\ obs = [p \in Procs |-> NoObs]

NextConc ==
    \/ Tick
    \/ \E p \in Procs : Step(p)

SpecConc == InitConc /\ [][NextConc]_vars

\* one caller of Deposit and Withdraw
InitPost ==
    /\ clock = 0
    /\ \E count \in -1..1 : retryCount = WithRetryCount(count)
    /\ accessToken = ""
    /\ refreshToken = ""
    /\ tokenExpiresAt = ZeroTime
    /\ cache = EmptyTriple
    /\ issued = 0
    /\ server = PostServer
    /\ returned = FALSE
    /\ call = [p \in Procs |-> IdleCall]
    /\ obs = [p \in Procs |-> NoObs]

SpecPost == InitPost /\ [][Next]_vars

\* one caller on a client whose Token Store was handed in through
\* WithTokenCache: its Get may fail, and other processes write to it
InitStore ==
    /\ clock = 0
    /\ retryCount \in {0, 1}
    /\ accessToken = ""
    /\ refreshToken = ""
    /\ tokenExpiresAt = ZeroTime
    /\ cache \in {EmptyTriple} \cup ExternalTriples
    /\ issued = 0
    /\ server = StoreServer
    /\ returned = FALSE
    /\ call = [p \in Procs |-> IdleCall]
    /\ obs = [p \in Procs |-> NoObs]

\* another process stores a triple in the shared Token Store, or clears it
ExternalWrite ==
    /\ cache' \in ({EmptyTriple} \cup ExternalTriples) \ {cache}
    /\ UNCHANGED <<clock, retryCount, accessToken, refreshToken, tokenExpiresAt, issued, server, returned, call, obs>>

NextStore ==
    \/ Next
    \/ ExternalWrite

SpecStore == InitStore /\ [][NextStore]_vars

\* ------------------------------------------------------------------------
\* InMemoryTokenCache, statement by statement.  Its RWMutex is held by the
\* callers that are between their lock and their unlock.
\* ------------------------------------------------------------------------
\* the triples Set is called with
CacheArgs == { Triple("a1", "r1", 1), Triple("a2", "r2", 2) }

CacheReadHeld(p) == call[p].pc \in {"cg_token", "cg_refresh", "cg_expires", "cg_unlock"}
CacheWriteHeld(p) ==
    call[p].pc \in {"cs_token", "cs_refresh", "cs_expires", "cs_unlock",
                    "cc_token", "cc_refresh", "cc_expires", "cc_unlock"}
\* sync.RWMutex: RLock waits for the writer, Lock for the writer and the readers
CanRLock(p) == \A q \in Procs \ {p} : ~CacheWriteHeld(q)
\* Lock taken while others read
CanLockDespiteReaders(p) == \A q \in Procs \ {p} : ~CacheWriteHeld(q)
CanLock(p) == \A q \in Procs \ {p} : ~CacheWriteHeld(q) /\ ~CacheReadHeld(q)

CacheGoto(p, c) ==
    /\ call' = [call EXCEPT ![p] = c]
    /\ UNCHANGED <<clock, retryCount, accessToken, refreshToken, tokenExpiresAt, issued, server, returned, obs>>

\* a goroutine calls Get, Set or Clear on the cache
CacheCall(p) ==
    /\ call[p].pc = "idle"
    /\ \/ CacheGoto(p, [IdleCall EXCEPT !.pc = "cg_lock", !.op = "Get"])
       \/ \E t \in CacheArgs : CacheGoto(p, [IdleCall EXCEPT !.pc = "cs_lock", !.op = "Set", !.pending = t])
       \/ CacheGoto(p, [IdleCall EXCEPT !.pc = "cc_lock", !.op = "Clear"])
    /\ UNCHANGED cache

\* Get: c.mu.RLock(), the three reads of the return statement, the deferred
\* RUnlock
CacheGet(p) ==
    /\ \/ call[p].pc = "cg_lock" /\ CanRLock(p)
          /\ CacheGoto(p, [call[p] EXCEPT !.pc = "cg_token"])
       \/ call[p].pc = "cg_token"
          /\ CacheGoto(p, [call[p] EXCEPT !.pc = "cg_refresh", !.cached.token = cache.token])
       \/ call[p].pc = "cg_refresh"
          /\ CacheGoto(p, [call[p] EXCEPT !.pc = "cg_expires", !.cached.refreshToken = cache.refreshToken])
       \/ call[p].pc = "cg_expires"
          /\ CacheGoto(p, [call[p] EXCEPT !.pc = "cg_unlock", !.cached.expiresAt = cache.expiresAt])
       \/ call[p].pc = "cg_unlock"
          /\ CacheGoto(p, [call[p] EXCEPT !.pc = "done"])
    /\ UNCHANGED cache

\* Set: c.mu.Lock(), the three assignments, the deferred Unlock
CacheSet(p) ==
    \/ /\ call[p].pc = "cs_lock" /\ CanLock(p)
       /\ CacheGoto(p, [call[p] EXCEPT !.pc = "cs_token"])
       /\ UNCHANGED cache
    \/ /\ call[p].pc = "cs_token"
       /\ cache' = [cache EXCEPT !.token = call[p].pending.token]
       /\ CacheGoto(p, [call[p] EXCEPT !.pc = "cs_refresh"])
    \/ /\ call[p].pc = "cs_refresh"
       /\ cache' = [cache EXCEPT !.refreshToken = call[p].pending.refreshToken]
       /\ CacheGoto(p, [call[p] EXCEPT !.pc = "cs_expires"])
    \/ /\ call[p].pc = "cs_expires"
       /\ cache' = [cache EXCEPT !.expiresAt = call[p].pending.expiresAt]
       /\ CacheGoto(p, [call[p] EXCEPT !.pc = "cs_unlock"])
    \/ /\ call[p].pc = "cs_unlock"
       /\ CacheGoto(p, [call[p] EXCEPT !.pc = "done"])
       /\ UNCHANGED cache

\* Clear: c.mu.Lock(), the three assignments, the deferred Unlock
CacheClear(p) ==
    \/ /\ call[p].pc = "cc_lock" /\ CanLock(p)
       /\ CacheGoto(p, [call[p] EXCEPT !.pc = "cc_token"])
       /\ UNCHANGED cache
    \/ /\ call[p].pc = "cc_token"
       /\ cache' = [cache EXCEPT !.token = ""]
       /\ CacheGoto(p, [call[p] EXCEPT !.pc = "cc_refresh"])
    \/ /\ call[p].pc = "cc_refresh"
       /\ cache' = [cache EXCEPT !.refreshToken = ""]
       /\ CacheGoto(p, [call[p] EXCEPT !.pc = "cc_expires"])
    \/ /\ call[p].pc = "cc_expires"
       /\ cache' = [cache EXCEPT !.expiresAt = ZeroTime]
       /\ CacheGoto(p, [call[p] EXCEPT !.pc = "cc_unlock"])
    \/ /\ call[p].pc = "cc_unlock"
       /\ CacheGoto(p, [call[p] EXCEPT !.pc = "done"])
       /\ UNCHANGED cache

\* goroutines that use one NewInMemoryTokenCache() concurrently
NextCache ==
    \E p \in Procs :
        \/ CacheCall(p)
        \/ CacheGet(p)
        \/ CacheSet(p)
        \/ CacheClear(p)
        \/ Return(p)

SpecCache == InitConc /\ [][NextCache]_vars

\* ------------------------------------------------------------------------
\* Properties
\* ------------------------------------------------------------------------
Done(p) == call[p].pc = "done"
ClientErrorStatuses == {400, 401, 404, 422}

\* C1: a call that was not cancelled and whose every domain attempt was
\* answered with 500, 502 or 503 never dispatches more than retryCount+1
\* domain requests, and when it returns it has dispatched exactly
\* retryCount+1 and returns a failure.
C1_ExactlyRetryCountPlusOne ==
    \A p \in Procs :
        (obs[p].only5xx /\ ~call[p].ctxDone) =>
            /\ obs[p].dispatches <= retryCount + 1
            /\ (Done(p) /\ obs[p].replied) =>
                   /\ obs[p].dispatches = retryCount + 1
                   /\ call[p].ret # NilErr
                   /\ call[p].err # NilErr

C1_Witness ==
    \E p \in Procs :
        /\ Done(p) /\ obs[p].replied /\ obs[p].only5xx /\ ~call[p].ctxDone
        /\ retryCount = 2 /\ obs[p].dispatches = 3

\* C2: a 400, 401, 404 or 422 answer to the first domain attempt ends the
\* call at once: one dispatch, no backoff wait, and doRequest returns the
\* classified error of that response, whatever the retry count.
C2_ClientErrorNotRetried ==
    \A p \in Procs :
        (obs[p].replied /\ obs[p].dispatches = 1 /\ obs[p].last.net
           /\ obs[p].last.status \in ClientErrorStatuses) =>
            /\ Done(p)
            /\ call[p].ret = parseErrorResponse(obs[p].last.status, Bodies[obs[p].last.b])
            /\ IsKind(call[p].ret, IF obs[p].last.b = 1 THEN "APIError"
                                   ELSE IF obs[p].last.status = 401 THEN "AuthError"
                                   ELSE IF obs[p].last.status = 404 THEN "APIError"
                                   ELSE "ValidationError")

C2_Witness ==
    \E p \in Procs :
        /\ Done(p) /\ obs[p].replied /\ obs[p].dispatches = 1
        /\ obs[p].last.status = 422 /\ retryCount = 2

\* C3: when the Token Store, as ensureToken reads it, holds a non-empty
\* access token expiring more than the refresh buffer after the current
\* time, ensureToken dispatches neither a refresh nor an authenticate
\* exchange and returns success.
C3_FreshCacheNoExchange ==
    \A p \in Procs :
        obs[p].cacheFresh =>
            /\ obs[p].refreshes = 0
            /\ obs[p].auths = 0
            /\ call[p].pc \in {"et_adopt", "et_check", "dr_send", "dr_wait", "dr_backoff", "done"}
            /\ obs[p].etDone => obs[p].etErr = NilErr
            /\ Done(p) => obs[p].etDone

C3_Witness ==
    \E p \in Procs : obs[p].cacheFresh /\ obs[p].etDone /\ obs[p].dispatches = 1

AllEnsured == \A p \in Procs : obs[p].etDone
C5_ConcurrentCallersLeaveValidStore ==
    [][ (~AllEnsured /\ AllEnsured' /\ ~returned' /\ \A p \in Procs : obs'[p].authValid) =>
            /\ \A p \in Procs : obs'[p].etErr = NilErr
            /\ cache'.token # ""
            /\ cache'.expiresAt > clock' ]_vars

\* C6: when the context is cancelled while doRequest waits in a backoff,
\* no further domain request is dispatched and doRequest returns the
\* context's error.
C6_CancelDuringBackoff ==
    \A p \in Procs :
        obs[p].cancelInBackoff =>
            /\ obs[p].dispatches = obs[p].dispAtCancel
            /\ call[p].pc \in {"dr_backoff", "done"}
            /\ Done(p) => call[p].ret = Leaf("context.Canceled")

C6_Witness ==
    \E p \in Procs : obs[p].cancelInBackoff /\ Done(p) /\ obs[p].dispatches = 1 /\ retryCount = 2

\* C7: GetWallet, given a 200 response with the success envelope
\* {data: {id: "w1", balance: "10.00", currency: "USD"}}, returns no error
\* and a wallet with id "w1", balance "10.00" and currency "USD".
C7_GetWalletDecodesData ==
    \A p \in Procs :
        (Done(p) /\ obs[p].replied /\ obs[p].last.net /\ obs[p].last.status = 200
           /\ Bodies[obs[p].last.b] = WalletBody) =>
            /\ call[p].err = NilErr
            /\ ~call[p].wallet.nil
            /\ call[p].wallet.ID = "w1"
            /\ call[p].wallet.Balance = "10.00"
            /\ call[p].wallet.Currency = "USD"

\* C8: a 422 response with the error envelope {message: "invalid amount",
\* errors: ["amount must be positive", "currency is required"]} ends the
\* call, and doRequest returns a validation error with that message around
\* an API error with status 422, that message and that list in that order.
C8_ValidationErrorVerbatim ==
    \A p \in Procs :
        (obs[p].replied /\ obs[p].last.net /\ obs[p].last.status = 422
           /\ Bodies[obs[p].last.b] = ErrBody) =>
            /\ Done(p)
            /\ call[p].ret =
                 << [kind |-> "ValidationError", status |-> 0, msg |-> "invalid amount", errs |-> <<>>],
                    [kind |-> "APIError", status |-> 422, msg |-> "invalid amount",
                     errs |-> <<"amount must be positive", "currency is required">>] >>

C8_Witness ==
    \E p \in Procs :
        /\ Done(p) /\ obs[p].replied /\ obs[p].last.status = 422
        /\ Bodies[obs[p].last.b] = ErrBody /\ IsKind(call[p].ret, "ValidationError")

\* C9: whenever the client's credential expiry is written, the new value is
\* the zero time or a time strictly after the current time.
C9_ExpiryZeroOrFuture ==
    [][ tokenExpiresAt' # tokenExpiresAt =>
            (tokenExpiresAt' = ZeroTime \/ tokenExpiresAt' > clock') ]_vars

\* C10: while no caller is inside an authenticate or refresh exchange (its
\* setTokens included), the in-process triple equals the triple in the
\* Token Store.
InExchange(p) == call[p].pc \in {"rf_send", "rf_wait", "rf_set", "au_send", "au_wait", "au_set"}
C10_CredentialMirrorsStore ==
    (\A p \in Procs : ~InExchange(p)) =>
        Triple(accessToken, refreshToken, tokenExpiresAt) = cache

\* C11: the in-memory Token Store is an atomic register.  Under every
\* interleaving of Get, Set and Clear calls, what a Get returns is the whole
\* content of the store at one moment of the call, and that content is the
\* complete triple of one single Set call or the empty triple (as at the
\* start, and after a Clear); a finished Set leaves its triple and a finished
\* Clear the empty triple.  No Get returns fields of two different Set calls.
WholeTriples == {EmptyTriple} \cup CacheArgs
C11_GetReturnsWholeTriple ==
    /\ \A p \in Procs :
          (call[p].op = "Get" /\ call[p].pc \in {"cg_unlock", "done"}) => call[p].cached \in WholeTriples
    /\ \A p \in Procs : call[p].pc = "cg_unlock" => call[p].cached = cache
    /\ \A p \in Procs : call[p].pc = "cs_unlock" => cache = call[p].pending
    /\ \A p \in Procs : call[p].pc = "cc_unlock" => cache = EmptyTriple
    /\ (\A p \in Procs : ~CacheWriteHeld(p)) => cache \in WholeTriples

C11_Witness ==
    \E p, q \in Procs :
        /\ call[p].op = "Get" /\ call[p].pc = "done" /\ call[p].cached = Triple("a1", "r1", 1)
        /\ call[q].op = "Set" /\ call[q].pc = "cs_unlock" /\ call[q].pending = Triple("a2", "r2", 2)

\* C12: every failure that authenticate returns, and every failure that
\* ensureToken returns, is an AuthError around the cause of the failure,
\* whether the exchange failed in transport, was answered with a status
\* outside 2xx, or was answered with a success body that does not decode.
IsWrappingAuthError(err) == Len(err) > 1 /\ err[1].kind = "AuthError"
C12_CredentialFailuresAreAuthErrors ==
    \A p \in Procs :
        /\ (obs[p].authDone /\ obs[p].authErr # NilErr) => IsWrappingAuthError(obs[p].authErr)
        /\ (obs[p].etDone /\ obs[p].etErr # NilErr) => IsWrappingAuthError(obs[p].etErr)

\* C13: for every response that doRequest hands to the classifier (status
\* below 200 or from 400 on), whether or not its body decodes as an error
\* envelope, the error returned is an AuthError for 401, a ValidationError
\* for 400 and 422 and a plain APIError for every other status, and the
\* APIError in it carries the status of the response.
Classified(p) ==
    /\ Done(p) /\ ~call[p].ctxDone /\ obs[p].replied
    /\ obs[p].last.net /\ IsErrorStatus(obs[p].last.status)
KindOfStatus(status) ==
    IF status = 401 THEN "AuthError"
    ELSE IF status \in {400, 422} THEN "ValidationError"
    ELSE "APIError"
CarriesStatus(err, status) == IsKind(err, "APIError") /\ AsKind(err, "APIError").status = status
C13_KindByStatus ==
    \A p \in Procs :
        Classified(p) =>
            /\ call[p].ret[1].kind = KindOfStatus(obs[p].last.status)
            /\ CarriesStatus(call[p].ret, obs[p].last.status)

\* C13 as amended: the kind follows the status when the body decodes as an
\* error envelope; a body that does not decode gives a plain APIError with
\* the synthesized message, whatever the status.  In both cases the APIError
\* carries the status of the response.
C13_KindByStatusWhenDecodable ==
    \A p \in Procs :
        Classified(p) =>
            /\ CarriesStatus(call[p].ret, obs[p].last.status)
            /\ IF Bodies[obs[p].last.b] = JBad
               THEN /\ Len(call[p].ret) = 1
                    /\ call[p].ret[1].kind = "APIError"
                    /\ call[p].ret[1].msg = HTTPStatusLine(obs[p].last.status)
               ELSE call[p].ret[1].kind = KindOfStatus(obs[p].last.status)

C13_Witness ==
    \E p \in Procs :
        /\ Classified(p) /\ obs[p].last.status = 401 /\ Bodies[obs[p].last.b] = JBad
        /\ call[p].ret = APIError(401, "HTTP 401: 401 Unauthorized", <<>>)

\* C14: when the caller's context is cancelled while a domain request is in
\* flight, doRequest does not record the failure of that request as the
\* last retryable error and go on with the loop; it returns, and what it
\* returns is the cancellation failure, not a "request failed" transport
\* failure, on the last attempt as on every other.
C14_InFlightCancelNotRetryable ==
    \A p \in Procs :
        obs[p].cancelInFlight =>
            /\ call[p].pc \in {"dr_wait", "done"}
            /\ call[p].lastErr = NilErr
            /\ Done(p) => /\ IsKind(call[p].ret, "context.Canceled")
                           /\ call[p].ret[1].msg # "request failed"

\* C15: ensureToken is invoked before every domain network attempt of a
\* call, the retry attempts included: a call never has dispatched more
\* domain requests than it has invoked ensureToken.
C15_EnsureTokenBeforeEveryAttempt ==
    \A p \in Procs : obs[p].dispatches <= obs[p].ensures

\* C16: every attempt carries the access token that the in-process
\* credential holds when the attempt is dispatched, so a token that a
\* concurrent caller stored between two attempts of a call is the one the
\* later attempt carries.
C16_AttemptReadsCurrentToken ==
    [][ \A p \in Procs :
            Len(obs'[p].sent) = Len(obs[p].sent) + 1 =>
                obs'[p].sent[Len(obs'[p].sent)] = accessToken ]_vars

C16_Witness ==
    \E p \in Procs :
        /\ call[p].pc = "dr_wait" /\ obs[p].sent = <<"at1", "at2">>
        /\ accessToken = "at2"

\* C17: doRequest returns success only for a final response with a status
\* from 200 to 299; a response with any other status goes through the
\* classifier and the call ends in a failure that carries an APIError.
SuccessStatuses == 200..299
C17_SuccessOnly2xx ==
    \A p \in Procs :
        (Done(p) /\ ~call[p].ctxDone /\ obs[p].replied /\ obs[p].last.net) =>
            /\ call[p].ret = NilErr => obs[p].last.status \in SuccessStatuses
            /\ obs[p].last.status \notin SuccessStatuses =>
                   call[p].ret = parseErrorResponse(obs[p].last.status, Bodies[obs[p].last.b])

\* C18: the retry count in effect is never negative, WithRetryCount of a
\* negative number stores what WithRetryCount(0) stores, and with retry
\* count 0 a call dispatches at most one domain request, never waits in a
\* backoff and ends with the outcome of that one request, whatever it is.
C18_RetryCountZeroOneDispatch ==
    /\ retryCount >= 0
    /\ \A n \in -3..-1 : WithRetryCount(n) = WithRetryCount(0)
    /\ \A p \in Procs :
          retryCount = 0 =>
              /\ obs[p].dispatches <= 1
              /\ call[p].pc # "dr_backoff"
              /\ obs[p].replied => (Done(p) /\ obs[p].dispatches = 1)

C18_Witness ==
    \E p \in Procs :
        /\ retryCount = 0 /\ Done(p) /\ obs[p].replied /\ obs[p].dispatches = 1
        /\ ~obs[p].last.net /\ call[p].ret # NilErr

\* C19: every failure an endpoint method returns shows its kind on its
\* unwrap chain: an AuthError, ValidationError or APIError (with the status
\* of the response, for a classified response) behind the "failed to ..."
\* wrapping, or the typed error of a transport, decode or cancellation
\* failure; no failure has to be told by its text.
TypedKinds == {"AuthError", "ValidationError", "APIError", "url.Error", "json.Error", "context.Canceled"}
C19_FailureKindOnUnwrapChain ==
    \A p \in Procs :
        (Done(p) /\ call[p].err # NilErr) =>
            /\ \E k \in TypedKinds : IsKind(call[p].err, k)
            /\ Classified(p) =>
                   /\ IsKind(call[p].err, call[p].ret[1].kind)
                   /\ CarriesStatus(call[p].err, obs[p].last.status)

\* C20: ListTransactions, given a 200 response with the success envelope
\* {data: [t1, t2], pagination: {page: 1, per_page: 2, total: 3,
\* total_pages: 2}}, returns no error and a result whose Data is the list
\* t1, t2 and whose Pagination is that metadata, not nil.
C20_ListTransactionsKeepsPagination ==
    \A p \in Procs :
        (Done(p) /\ call[p].op = "ListTransactions" /\ ~call[p].ctxDone /\ obs[p].replied
           /\ obs[p].last.net /\ obs[p].last.status = 200 /\ Bodies[obs[p].last.b] = ListBody) =>
            /\ call[p].err = NilErr
            /\ ~call[p].list.nil
            /\ Len(call[p].list.Data) = 2
            /\ call[p].list.Data[1].ID = "t1" /\ call[p].list.Data[1].Amount = "5.00"
            /\ call[p].list.Data[2].ID = "t2" /\ call[p].list.Data[2].Amount = "7.50"
            /\ call[p].list.Pagination =
                 [present |-> TRUE, page |-> 1, per_page |-> 2, total |-> 3, total_pages |-> 2]

\* C21: when ensureToken fails, doRequest returns that failure, wrapped, at
\* once: the call is over, it has dispatched no domain request, waited in no
\* backoff and run ensureToken once, with at most one refresh and one
\* authenticate exchange, whatever the retry count.
C21_EnsureFailureReturnsAtOnce ==
    \A p \in Procs :
        (obs[p].etDone /\ obs[p].etErr # NilErr) =>
            /\ Done(p)
            /\ call[p].ret = Wrapf("failed to ensure token", obs[p].etErr)
            /\ obs[p].dispatches = 0
            /\ obs[p].ensures = 1
            /\ obs[p].refreshes <= 1 /\ obs[p].auths <= 1

C21_Witness ==
    \E p \in Procs :
        /\ obs[p].etDone /\ obs[p].etErr # NilErr /\ Done(p) /\ ~call[p].ctxDone
        /\ retryCount = 2 /\ obs[p].auths = 1

\* C22: within one call the k-th backoff wait that elapses, the one before
\* attempt k, lasts 100ms * 2^(k-1): attempt 0 follows no wait, the first
\* wait is 100ms and every later one twice the one before; every call
\* starts again at 100ms.
C22_BackoffDoubles ==
    \A p \in Procs :
        /\ \A k \in 1..Len(obs[p].waits) : obs[p].waits[k] = 100 * 2^(k - 1)
        /\ call[p].pc \in {"dr_send", "dr_wait"} => Len(obs[p].waits) = call[p].attempt
        /\ call[p].pc = "dr_backoff" => Len(obs[p].waits) = call[p].attempt - 1
        /\ obs[p].dispatches <= Len(obs[p].waits) + 1

C22_Witness ==
    \E p \in Procs : returned /\ call[p].pc = "dr_wait" /\ obs[p].waits = <<100, 200>>

\* C23: when a call gives up after retryCount+1 attempts, the last of which
\* (like all before it) ended in a transport failure or a status from 500
\* on, it returns the error of that last attempt: "request failed" around
\* the transport error, or the classified API error of the last response.
Retryable(reply) == ~reply.net \/ IsServerError(reply.status)
C23_LastErrorReturned ==
    \A p \in Procs :
        (Done(p) /\ ~call[p].ctxDone /\ obs[p].replied /\ obs[p].dispatches = retryCount + 1
           /\ Retryable(obs[p].last)) =>
            IF ~obs[p].last.net
            THEN call[p].ret = Wrapf("request failed", DoError("net.OpError"))
            ELSE /\ call[p].ret = parseErrorResponse(obs[p].last.status, Bodies[obs[p].last.b])
                 /\ call[p].ret[1].kind = "APIError"
                 /\ call[p].ret[1].status = obs[p].last.status

C23_Witness ==
    \E p \in Procs :
        /\ Done(p) /\ ~call[p].ctxDone /\ obs[p].mixed /\ retryCount = 1 /\ obs[p].dispatches = 2
        /\ obs[p].last.net /\ obs[p].last.status = 503 /\ Bodies[obs[p].last.b] = ErrBody

\* C24: no refresh exchange is dispatched with an empty refresh token.  A
\* caller about to send or waiting for a refresh exchange holds a non-empty
\* refresh token; a refresh that finds none fails without an exchange; and
\* a caller that goes to authenticate without a failed refresh has
\* dispatched no refresh exchange.  This holds with concurrent callers that
\* rewrite the credential between ensureToken's check and refresh's read.
C24_NoRefreshWithoutToken ==
    \A p \in Procs :
        /\ call[p].pc \in {"rf_send", "rf_wait"} => call[p].rtok # ""
        /\ (call[p].pc \in {"au_send", "au_wait", "au_set"} /\ ~obs[p].refreshFailed) =>
               obs[p].refreshes = 0
        /\ obs[p].refreshes <= 1

\* a caller whose ensureToken saw a refresh token and whose refresh, after
\* another caller stored a grant without one, found none
C24_Witness ==
    \E p \in Procs :
        /\ call[p].pc = "au_wait" /\ obs[p].refreshFailed /\ obs[p].refreshes = 0
        /\ refreshToken = "" /\ accessToken # ""

\* C25: one ensureToken call dispatches at most one refresh exchange and at
\* most one authenticate exchange, the authenticate exchange after a refresh
\* exchange only when that refresh failed: after a refresh that succeeded
\* ensureToken returns success with that one exchange, and after a failed
\* authenticate the call is over.
C25_OneRefreshOneAuthenticate ==
    \A p \in Procs :
        /\ obs[p].ensures <= 1
        /\ obs[p].refreshes <= 1
        /\ obs[p].auths <= 1
        /\ (obs[p].refreshes = 1 /\ obs[p].auths = 1) => obs[p].refreshFailed
        /\ (obs[p].refreshes = 1 /\ ~obs[p].refreshFailed /\ call[p].pc # "rf_wait") =>
               /\ obs[p].auths = 0
               /\ obs[p].etDone => obs[p].etErr = NilErr
        /\ (obs[p].authDone /\ obs[p].authErr # NilErr) => Done(p)

C25_Witness ==
    \E p \in Procs :
        /\ obs[p].refreshes = 1 /\ ~obs[p].refreshFailed /\ obs[p].auths = 0
        /\ obs[p].etDone /\ obs[p].dispatches = 1

\* what doRequest's decoding makes of body number b for the sink of method op
DecodeOf(op, b) ==
    IF op = "ListTransactions"
    THEN decodeIntoTransactions(Bodies[b], ZeroTransactionsResponse)
    ELSE decodeInto(Bodies[b], ZeroSuccessResponse)

\* C26: a 2xx response whose envelope or whose data payload does not decode
\* into the sink of the calling method ends the call with the decode failure
\* on that attempt; nothing more is dispatched even when retries remain.
C26_DecodeFailureIsTerminal ==
    \A p \in Procs :
        (/\ obs[p].replied /\ obs[p].last.net
         /\ obs[p].last.status \in 200..299
         /\ DecodeOf(call[p].op, obs[p].last.b).err # NilErr) =>
            /\ Done(p)
            /\ call[p].ret = DecodeOf(call[p].op, obs[p].last.b).err
            /\ call[p].err # NilErr

C26_Witness ==
    \E p \in Procs :
        /\ Done(p) /\ obs[p].replied /\ obs[p].last.net /\ obs[p].last.status = 200
        /\ call[p].ret = Wrapf("failed to unmarshal response data", Leaf("json.Error"))
        /\ retryCount = 1 /\ obs[p].dispatches = 1

\* the in-process credential
InProcess == Triple(accessToken, refreshToken, tokenExpiresAt)

\* C27: in ensureToken a Token Store Get that fails or returns an empty
\* access token changes nothing of the in-process credential, and the
\* staleness test uses the in-process expiry; a Get that returns a non-empty
\* access token makes the whole cached triple the in-process credential, and
\* the staleness test uses the cached expiry, also when the in-process expiry
\* was later.
C27_CacheMissOrAdoption ==
    [][\A p \in Procs :
          /\ (call[p].pc = "et_get" /\ call'[p].pc # "et_get") =>
                 IF obs'[p].getFailed \/ cache.token = ""
                 THEN /\ call'[p].pc = "et_check"
                      /\ InProcess' = InProcess
                      /\ call'[p].expiresAt = tokenExpiresAt
                 ELSE /\ call'[p].pc = "et_adopt"
                      /\ call'[p].cached = cache
                      /\ InProcess' = InProcess
          /\ (call[p].pc = "et_adopt" /\ call'[p].pc # "et_adopt") =>
                 /\ call'[p].pc = "et_check"
                 /\ InProcess' = call[p].cached
                 /\ call'[p].expiresAt = call[p].cached.expiresAt
          /\ (call[p].pc = "et_check" /\ call'[p].pc # "et_check") =>
                 /\ InProcess' = InProcess
                 /\ (call'[p].pc = "dr_send") =
                        ~IsStale(IF obs[p].adopted THEN tokenExpiresAt ELSE obs[p].priorExpiry, clock)
                 /\ obs[p].adopted => ~obs[p].getFailed
      ]_vars

\* the cached triple was adopted although the in-process credential was
\* still fresh, and its earlier expiry sends ensureToken to the exchanges
C27_Witness ==
    \E p \in Procs :
        /\ call[p].pc = "et_check" /\ obs[p].adopted
        /\ obs[p].priorExpiry > tokenExpiresAt
        /\ ~IsStale(obs[p].priorExpiry, clock)
        /\ IsStale(call[p].expiresAt, clock)

\* a Get that failed while the store held a fresh triple is a cache miss
C27_WitnessFailedGet ==
    \E p \in Procs :
        /\ call[p].pc = "et_check" /\ obs[p].getFailed /\ ~obs[p].adopted
        /\ cache.token # "" /\ ~IsStale(cache.expiresAt, clock)
        /\ InProcess # cache

\* C28: every call terminates, and over its whole run it dispatches at most
\* retryCount+1 domain requests, at most one refresh exchange and at most
\* one authenticate exchange, whatever the server answers.
C28_CallTerminatesWithinBounds ==
    /\ [](\A p \in Procs :
            /\ obs[p].dispatches <= retryCount + 1
            /\ obs[p].refreshes <= 1
            /\ obs[p].auths <= 1)
    /\ \A p \in Procs : (call[p].pc # "idle") ~> Done(p)

C28_Witness ==
    \E p \in Procs :
        /\ Done(p) /\ retryCount = 1 /\ ~call[p].ctxDone
        /\ obs[p].dispatches = retryCount + 1
        /\ obs[p].refreshes = 1 /\ obs[p].auths = 1

\* C29: a call dispatches again only while every reply so far was a
\* transport failure or a status >= 500; after a 2xx, 3xx or 4xx reply the
\* call is over; and every attempt of a call, the POST of Deposit and
\* Withdraw included, carries the same method, target and serialized body.
C29_RedispatchOnlyAfterRetryable ==
    \A p \in Procs :
        /\ (obs[p].replied /\ ~obs[p].allRetryable) => Done(p)
        /\ (obs[p].replied /\ obs[p].last.net /\ obs[p].last.status < 500) => Done(p)
        /\ Len(obs[p].reqs) = obs[p].dispatches
        /\ \A i \in 1..Len(obs[p].reqs) :
               /\ obs[p].reqs[i] = obs[p].reqs[1]
               /\ obs[p].reqs[i].method = HTTPMethod(call[p].op)
               /\ obs[p].reqs[i].target = Target(call[p].op)
               /\ call[p].op \in PostMethods => obs[p].reqs[i].body \in {MarshalRequest(r) : r \in SampleRequests}

C29_Witness ==
    \E p \in Procs :
        /\ Done(p) /\ call[p].op = "Deposit" /\ obs[p].dispatches = 2
        /\ obs[p].reqs[2].method = "POST" /\ obs[p].reqs[2].body = MarshalRequest(DepositRequest("25.50", "0240000000"))
        /\ obs[p].last.net /\ obs[p].last.status = 200

Got401(o) == o.replied /\ o.last.net /\ o.last.status = 401

\* C31: a 401 response to a domain request ends the call without any
\* refresh or authenticate exchange after it and without any change of the
\* in-process triple or of the Token Store triple, and the next call that
\* needs no exchange sends the access token the 401 answered.
C31_Status401LeavesCredential ==
    [][\A p \in Procs :
          /\ Got401(obs'[p]) => call'[p].pc = "done"
          /\ (call[p].pc = "dr_wait" /\ Got401(obs'[p])) =>
                 /\ InProcess' = InProcess
                 /\ cache' = cache
                 /\ obs'[p].refreshes = obs[p].refreshes
                 /\ obs'[p].auths = obs[p].auths
          /\ (call[p].pc = "done" /\ call'[p].pc # "done") =>
                 /\ InProcess' = InProcess
                 /\ cache' = cache
          /\ (/\ obs'[p].after401 # <<>> /\ obs'[p].sent # <<>>
              /\ obs'[p].refreshes = 0 /\ obs'[p].auths = 0) =>
                 obs'[p].sent[1] = obs'[p].after401[1]
      ]_vars

C31_Witness ==
    \E p \in Procs :
        /\ call[p].pc = "dr_wait"
        /\ obs[p].after401 # <<>> /\ obs[p].sent # <<>>
        /\ obs[p].refreshes = 0 /\ obs[p].auths = 0
        /\ obs[p].sent[1] = obs[p].after401[1] /\ obs[p].sent[1] \in {"at1", "at2"}

\* the place of an access token in the order in which the server issued the
\* grants; 0 for no token and for a token of another origin
IssueNo(tok) ==
    IF \E i \in 1..Len(AccessTokens) : AccessTokens[i] = tok
    THEN CHOOSE i \in 1..Len(AccessTokens) : AccessTokens[i] = tok
    ELSE 0

\* a caller is inside ensureToken
InEnsureToken(p) ==
    call[p].pc \in {"et_read", "et_get", "et_adopt", "et_check", "rf_read", "rf_send", "rf_wait",
                    "rf_set", "au_send", "au_wait", "au_set"}

\* C32: adoption of the cached triple never puts an older credential in the
\* place of a newer one.  Under every interleaving of the callers, once no
\* caller is inside ensureToken the in-process access token is the token
\* issued last, and no request of a caller carries a token issued before the
\* token that caller's own ensureToken obtained.
C32_AdoptionNeverRegresses ==
    /\ ((\A p \in Procs : ~InEnsureToken(p)) /\ issued > 0) =>
           accessToken = AccessTokens[issued]
    /\ \A p \in Procs : \A i \in 1..Len(obs[p].sent) :
           IssueNo(obs[p].sent[i]) >= IssueNo(obs[p].obtained)

====
